---- MODULE Spec2Model ----
(***************************************************************************)
(* Wallet ledger and escrow lifecycle of the marketplace server, persistent *)
(* (MongoDB / mongoose) branch of the route handlers.                       *)
(*                                                                          *)
(* Every HTTP request is a process (a slot).  A handler runs atomically     *)
(* between two awaits; each step below is the synchronous code that leads   *)
(* to one awaited store operation together with that store operation.       *)
(* Slots interleave at these steps, as concurrent requests do in Node.      *)
(*                                                                          *)
(* Store semantics modelled (mongoose document save):                       *)
(*   - save() of a loaded document sends only the modified paths:           *)
(*     scalars as $set of the local value, Array.push as $push,             *)
(*     Array.splice as $set of the whole array;                             *)
(*   - the pre('save') hook of Wallet recomputes reservedBalance from the   *)
(*     local escrowReserves when that array is not empty;                   *)
(*   - approve runs in a session transaction: snapshot reads, buffered      *)
(*     writes, a write conflict aborts the transaction, writes of other     *)
(*     requests to a document written by an open transaction wait.          *)
(*                                                                          *)
(* Money: amounts are integers; the inputs are multiples of 20 so that the  *)
(* 5% platform fee (amount * 0.05) is an integer, as it is in the code.     *)
(***************************************************************************)
EXTENDS Integers, Sequences, FiniteSets, TLC

\* ------------------------------------------------------------------ bounds
NumSlots == 2
MaxEscrows == 2
MaxTx == 4
MaxMethods == 1
MaxMethodsAlone == 3
MaxMockBalance == 1500
MaxMockMethods == 2

Slots == 1 .. NumSlots
Users == {"c", "f"}
Clients == {"c"}
Freelancers == {"f"}
\* the users who call the wallet routes (the freelancer's wallet is created by approve)
WalletUsers == {"c"}
EscrowIds == 1 .. MaxEscrows
DepositAmounts == {1000}
WithdrawAmounts == {100}
EscrowAmounts == {100, 940}
\* req.body.amount of create, valid or not
CreateAmounts == {-20, 0} \cup EscrowAmounts
PmIds == 1 .. (MaxMethods + 1)
\* req.body.reason of reject
DisputeReasons == {"late"}
\* the ids named by the payment-method routes run on their own
PmIdsAlone == 1 .. (MaxMethodsAlone + 1)

VARIABLES wallets, escrows, transactions, nextEscrow, nextPm, req

vars == <<wallets, escrows, transactions, nextEscrow, nextPm, req>>

\* ------------------------------------------------------------- documents
NoDoc == [userId |-> "none"]

\* new Wallet({userId, balance: 0, currency}) with the schema defaults
NewWallet(u) ==
  [userId |-> u, balance |-> 0, reservedBalance |-> 0, escrowReserves |-> <<>>,
   paymentMethods |-> <<>>, transactionIds |-> <<>>, v |-> 0]

RECURSIVE SumAmounts(_)
SumAmounts(s) == IF s = <<>> THEN 0 ELSE s[1].amount + SumAmounts(Tail(s))

\* WalletSchema.methods.recalculateReservedBalance
recalculateReservedBalance(w) ==
  [w EXCEPT !.reservedBalance = SumAmounts(w.escrowReserves)]

\* WalletSchema.methods.getAvailableBalance, and the inline form of the routes
getAvailableBalance(w) == w.balance - w.reservedBalance

\* WalletSchema.pre('save')
preSave(w) ==
  IF Len(w.escrowReserves) > 0 THEN recalculateReservedBalance(w) ELSE w

\* platformFee = amount * 0.05
PlatformFee(amount) == (amount * 5) \div 100

TotalAmount(amount) == amount + PlatformFee(amount)

\* ------------------------------------------------------------- requests
Idle ==
  [pc |-> "idle", op |-> "none", userId |-> "none", amount |-> 0, pmId |-> 0,
   isDefault |-> FALSE, escrowId |-> 0, peer |-> "none", wallet |-> NoDoc, fwallet |-> NoDoc, txId |-> 0,
   staleW |-> {}, staleE |-> FALSE, res |-> "none", availableBalance |-> 0, requested |-> 0,
   reason |-> "none", newBalance |-> 0, abortedAt |-> "none"]

\* res.status(..).json(..): the request ends with one response
Respond(q, r) == [Idle EXCEPT !.pc = "done", !.res = r]

\* res.status(400).json({error: 'Insufficient funds ..', availableBalance, requested})
InsufficientFunds(q, r, availableBalance, requested) ==
  [Respond(q, r) EXCEPT !.availableBalance = availableBalance, !.requested = requested]

\* res.status(201).json({success: true, transaction, newBalance: req.wallet.balance})
NewBalance(q, w) == [Respond(q, "201") EXCEPT !.newBalance = w.balance]

\* the 500 of each route's catch: 'Failed to <op>'
Failed(op) ==
  CASE op = "addPaymentMethod" -> "500_addPaymentMethod"
    [] op = "removePaymentMethod" -> "500_removePaymentMethod"
    [] op = "setDefaultPaymentMethod" -> "500_setDefaultPaymentMethod"
    [] op = "deposit" -> "500_deposit"
    [] op = "withdraw" -> "500_withdraw"
    [] op = "create" -> "500_create"
    [] op = "start" -> "500_start"
    [] op = "deliver" -> "500_deliver"
    [] op = "approve" -> "500_approve"
    [] op = "reject" -> "500_reject"
    [] OTHER -> "500"

\* the transaction of approve has made its first read: it has its snapshot
TxnPcs == {"approve_read_f", "approve_tx", "approve_escrow", "approve_client",
           "approve_freelancer", "approve_commit"}

InTxn(q) == q.pc \in TxnPcs

\* how far the transaction of q got: while abortTransaction is awaited, the
\* transaction still holds what it wrote
TxnPc(q) == IF q.pc = "approve_abort" THEN q.abortedAt ELSE q.pc

\* documents written (not yet committed) by the open transaction of q
HoldsEscrow(q, id) ==
  /\ TxnPc(q) \in {"approve_client", "approve_freelancer", "approve_commit"}
  /\ q.escrowId = id

HoldsWallet(q, u) ==
  \/ /\ TxnPc(q) \in {"approve_freelancer", "approve_commit"}
     /\ escrows[q.escrowId].clientId = u
  \/ /\ TxnPc(q) = "approve_commit"
     /\ escrows[q.escrowId].freelancerId = u

EscrowLockedByOther(r, id) == \E s \in Slots \ {r} : HoldsEscrow(req[s], id)

WalletLockedByOther(r, u) == \E s \in Slots \ {r} : HoldsWallet(req[s], u)

\* a committed write to wallet u / escrow id is seen as a conflict by every
\* other transaction whose snapshot is older
MarkStaleW(rq, r, us) ==
  [s \in Slots |->
     IF s # r /\ InTxn(rq[s]) THEN [rq[s] EXCEPT !.staleW = @ \cup us] ELSE rq[s]]

MarkStaleE(rq, r, id) ==
  [s \in Slots |->
     IF s # r /\ InTxn(rq[s]) /\ rq[s].escrowId = id
     THEN [rq[s] EXCEPT !.staleE = TRUE] ELSE rq[s]]

\* transactions that requests in flight may still append
Appending ==
  Cardinality({s \in Slots : req[s].op \in {"deposit", "withdraw", "create", "approve"}
                             /\ req[s].pc # "done" /\ req[s].txId = 0})

CanAppend == Len(transactions) + Appending < MaxTx

Init ==
  /\ wallets = [u \in Users |-> NoDoc]
  /\ escrows = [e \in EscrowIds |-> NoDoc]
  /\ transactions = <<>>
  /\ nextEscrow = 1
  /\ nextPm = 1
  /\ req = [s \in Slots |-> Idle]

\* ------------------------------------------------------- mongoose save
\* doc.save() of a loaded wallet: $set of the scalar paths whose local value
\* differs from the value read, $push of the pushed array elements, and $inc of
\* the version key __v when an array was pushed to.
SaveWallet(db, orig, new, pushReserves, pushTxIds, pushMethods) ==
  [db EXCEPT
     !.balance = IF new.balance # orig.balance THEN new.balance ELSE @,
     !.reservedBalance =
        IF new.reservedBalance # orig.reservedBalance THEN new.reservedBalance ELSE @,
     !.escrowReserves = @ \o pushReserves,
     !.transactionIds = @ \o pushTxIds,
     !.paymentMethods = @ \o pushMethods,
     !.v = IF Len(pushReserves) + Len(pushTxIds) + Len(pushMethods) > 0 THEN @ + 1 ELSE @]

\* ------------------------------------------------- wallet route handlers
HasMethod(w, pm) == \E i \in 1 .. Len(w.paymentMethods) : w.paymentMethods[i].id = pm


\* the amounts and payment-method ids that the checks of deposit are asked about
DepositInputs == {-20, 0} \cup DepositAmounts

DepositFailures == {"400_amount", "400_method", "404_method"}

\* DepositChecks that lets an amount of 0 through
DepositChecksZeroAllowed(q, w) ==
  IF q.amount < 0 THEN Respond(q, "400_amount")
  ELSE IF q.pmId = 0 THEN Respond(q, "400_method")
  ELSE IF ~HasMethod(w, q.pmId) THEN Respond(q, "404_method")
  ELSE [q EXCEPT !.pc = "deposit_tx", !.wallet = w]
\* deposit: the checks between getUserWallet and the first save
DepositChecks(q, w) ==
  IF q.amount <= 0 THEN Respond(q, "400_amount")
  ELSE IF q.pmId = 0 THEN Respond(q, "400_method")
  ELSE IF ~HasMethod(w, q.pmId) THEN Respond(q, "404_method")
  ELSE [q EXCEPT !.pc = "deposit_tx", !.wallet = w]

\* WithdrawChecks with the payment method looked up before the funds check
WithdrawChecksMethodFirst(q, w) ==
  IF q.amount <= 0 THEN Respond(q, "400_amount")
  ELSE IF q.pmId = 0 THEN Respond(q, "400_method")
  ELSE IF ~HasMethod(w, q.pmId) THEN Respond(q, "404_method")
  ELSE IF q.amount > getAvailableBalance(w)
    THEN InsufficientFunds(q, "400_funds", getAvailableBalance(w), q.amount)
  ELSE [q EXCEPT !.pc = "withdraw_tx", !.wallet = w]

\* withdraw: the checks between getUserWallet and the first save
WithdrawChecks(q, w) ==
  IF q.amount <= 0 THEN Respond(q, "400_amount")
  ELSE IF q.pmId = 0 THEN Respond(q, "400_method")
  ELSE IF q.amount > getAvailableBalance(w)
    THEN InsufficientFunds(q, "400_funds", getAvailableBalance(w), q.amount)
  ELSE IF ~HasMethod(w, q.pmId) THEN Respond(q, "404_method")
  ELSE [q EXCEPT !.pc = "withdraw_tx", !.wallet = w]

\* paymentMethods.findIndex(m => m.id === methodId), 0 when there is none
MethodIndex(ms, pm) ==
  IF \E i \in 1 .. Len(ms) : ms[i].id = pm
  THEN CHOOSE i \in 1 .. Len(ms) :
         ms[i].id = pm /\ \A j \in 1 .. (i - 1) : ms[j].id # pm
  ELSE 0

\* removePaymentMethod: the checks between getUserWallet and the save
RemoveChecks(q, w) ==
  LET methodIndex == MethodIndex(w.paymentMethods, q.pmId) IN
  IF methodIndex = 0 THEN Respond(q, "404_method")
  ELSE IF w.paymentMethods[methodIndex].isDefault /\ Len(w.paymentMethods) = 1
    THEN Respond(q, "400_only_method")
  ELSE [q EXCEPT !.pc = "removepm_save", !.wallet = w]

\* setDefaultPaymentMethod: the check between getUserWallet and the save
SetDefaultChecks(q, w) ==
  IF ~HasMethod(w, q.pmId) THEN Respond(q, "404_method")
  ELSE [q EXCEPT !.pc = "setdefault_save", !.wallet = w]

\* the handler that follows the getUserWallet middleware (next())
WalletHandler(q, w) ==
  CASE q.op = "deposit" -> DepositChecks(q, w)
    [] q.op = "withdraw" -> WithdrawChecks(q, w)
    [] q.op = "removePaymentMethod" -> RemoveChecks(q, w)
    [] q.op = "setDefaultPaymentMethod" -> SetDefaultChecks(q, w)
    [] q.op = "getWallet" -> Respond(q, "200")
    [] OTHER -> [q EXCEPT !.pc = "addpm_save", !.wallet = w]

\* getUserWallet: Wallet.findOne({userId})
getUserWallet(r, q) ==
  /\ req[r].pc = "idle"
  /\ req' = [req EXCEPT ![r] =
       IF wallets[q.userId] = NoDoc
       THEN [q EXCEPT !.pc = "getUserWallet_save"]
       ELSE WalletHandler(q, wallets[q.userId])]
  /\ UNCHANGED <<wallets, escrows, transactions, nextEscrow, nextPm>>

\* getUserWallet: wallet = new Wallet(..); await wallet.save()
\* (userId is a unique index: a second insert fails and the catch answers 500)
getUserWalletSave(r) ==
  LET q == req[r]
      u == q.userId IN
  /\ q.pc = "getUserWallet_save"
  /\ ~WalletLockedByOther(r, u)
  /\ IF wallets[u] # NoDoc
     THEN /\ req' = [req EXCEPT ![r] = Respond(q, "500_wallet")]
          /\ UNCHANGED wallets
     ELSE /\ wallets' = [wallets EXCEPT ![u] = NewWallet(u)]
          /\ req' = [MarkStaleW(req, r, {u}) EXCEPT ![r] = WalletHandler(q, NewWallet(u))]
  /\ UNCHANGED <<escrows, transactions, nextEscrow, nextPm>>

\* GET /wallet/:userId : res.json(req.wallet)
GetWalletBegin(r) ==
  \E u \in WalletUsers : getUserWallet(r, [Idle EXCEPT !.op = "getWallet", !.userId = u])

MethodsInFlight(u) ==
  Cardinality({s \in Slots : req[s].op = "addPaymentMethod" /\ req[s].userId = u
                             /\ req[s].pc # "done"})

\* at most max payment-method ids are ever minted
CanAddMethod(u, max) == (nextPm - 1) + MethodsInFlight(u) < max

\* POST /wallet/:userId/payment-methods
AddPaymentMethod(r, max) ==
  \E u \in WalletUsers, d \in BOOLEAN :
    /\ CanAddMethod(u, max)
    /\ getUserWallet(r, [Idle EXCEPT !.op = "addPaymentMethod", !.userId = u,
                                     !.isDefault = d])

AddPaymentMethodBegin(r) == AddPaymentMethod(r, MaxMethods)

ClearDefaults(ms) == [i \in 1 .. Len(ms) |-> [ms[i] EXCEPT !.isDefault = FALSE]]

\* addPaymentMethod: newMethod, clear the defaults, push, await req.wallet.save()
\* A push alone is sent as $push; a push together with a changed element is
\* sent as $set of the whole array, guarded by the version key.
AddPaymentMethodSave(r) ==
  LET q == req[r]
      u == q.userId
      w == q.wallet
      isDefault == q.isDefault \/ Len(w.paymentMethods) = 0
      newMethod == [id |-> nextPm, isDefault |-> isDefault]
      cleared == IF isDefault THEN ClearDefaults(w.paymentMethods) ELSE w.paymentMethods
      whole == cleared # w.paymentMethods IN
  /\ q.pc = "addpm_save"
  /\ ~WalletLockedByOther(r, u)
  /\ nextPm' = nextPm + 1
  /\ IF whole /\ wallets[u].v # w.v
     THEN /\ req' = [req EXCEPT ![r] = Respond(q, "500_version")]
          /\ UNCHANGED wallets
     ELSE /\ wallets' = [wallets EXCEPT ![u] =
               IF whole
               THEN [SaveWallet(@, w, preSave(w), <<>>, <<>>, <<>>) EXCEPT
                       !.paymentMethods = Append(cleared, newMethod), !.v = @ + 1]
               ELSE SaveWallet(@, w, preSave(w), <<>>, <<>>, <<newMethod>>)]
          /\ req' = [MarkStaleW(req, r, {u}) EXCEPT ![r] = Respond(q, "201")]
  /\ UNCHANGED <<escrows, transactions, nextEscrow>>

\* DELETE /wallet/:userId/payment-methods/:methodId
RemovePaymentMethodBegin(r) ==
  \E u \in WalletUsers, pm \in PmIdsAlone :
    getUserWallet(r, [Idle EXCEPT !.op = "removePaymentMethod", !.userId = u, !.pmId = pm])

\* removePaymentMethod: promote another method when the default one goes, splice
RemoveMethod(ms, pm) ==
  LET methodIndex == MethodIndex(ms, pm)
      newDefaultIndex == CHOOSE i \in 1 .. Len(ms) :
                           ms[i].id # pm /\ \A j \in 1 .. (i - 1) : ms[j].id = pm
      promoted == IF ms[methodIndex].isDefault /\ Len(ms) > 1
                  THEN [ms EXCEPT ![newDefaultIndex].isDefault = TRUE] ELSE ms IN
  SubSeq(promoted, 1, methodIndex - 1) \o SubSeq(promoted, methodIndex + 1, Len(promoted))

\* removePaymentMethod: await req.wallet.save(): the spliced array is sent as
\* $set of the whole array, guarded by the version key and incrementing it
RemovePaymentMethodSave(r) ==
  LET q == req[r]
      u == q.userId
      w == q.wallet IN
  /\ q.pc = "removepm_save"
  /\ ~WalletLockedByOther(r, u)
  /\ IF wallets[u].v # w.v
     THEN /\ req' = [req EXCEPT ![r] = Respond(q, "500_version")]
          /\ UNCHANGED wallets
     ELSE /\ wallets' = [wallets EXCEPT ![u] =
               [SaveWallet(@, w, preSave(w), <<>>, <<>>, <<>>) EXCEPT
                  !.paymentMethods = RemoveMethod(w.paymentMethods, q.pmId), !.v = @ + 1]]
          /\ req' = [MarkStaleW(req, r, {u}) EXCEPT ![r] = Respond(q, "200")]
  /\ UNCHANGED <<escrows, transactions, nextEscrow, nextPm>>

\* PUT /wallet/:userId/payment-methods/:methodId/default
SetDefaultPaymentMethodBegin(r) ==
  \E u \in WalletUsers, pm \in PmIdsAlone :
    getUserWallet(r, [Idle EXCEPT !.op = "setDefaultPaymentMethod", !.userId = u,
                                  !.pmId = pm])

\* setDefaultPaymentMethod: method.isDefault = method.id === methodId
SetDefault(ms, pm) == [i \in 1 .. Len(ms) |-> [ms[i] EXCEPT !.isDefault = (ms[i].id = pm)]]

\* setDefaultPaymentMethod: await req.wallet.save(): the elements whose flag
\* changed are sent as $set of paymentMethods.<i>.isDefault, guarded by the
\* version key (not incremented); nothing is sent when no flag changed
SetDefaultPaymentMethodSave(r) ==
  LET q == req[r]
      u == q.userId
      w == q.wallet
      new == SetDefault(w.paymentMethods, q.pmId)
      changed == {i \in 1 .. Len(new) : new[i] # w.paymentMethods[i]} IN
  /\ q.pc = "setdefault_save"
  /\ ~WalletLockedByOther(r, u)
  /\ IF changed # {} /\ wallets[u].v # w.v
     THEN /\ req' = [req EXCEPT ![r] = Respond(q, "500_version")]
          /\ UNCHANGED wallets
     ELSE /\ wallets' = [wallets EXCEPT ![u] =
               [SaveWallet(@, w, preSave(w), <<>>, <<>>, <<>>) EXCEPT
                  !.paymentMethods = [i \in 1 .. Len(@) |->
                                        IF i \in changed THEN new[i] ELSE @[i]]]]
          /\ req' = [MarkStaleW(req, r, {u}) EXCEPT ![r] = Respond(q, "200")]
  /\ UNCHANGED <<escrows, transactions, nextEscrow, nextPm>>

\* POST /wallet/:userId/deposit
DepositBegin(r) ==
  \E u \in WalletUsers, a \in DepositAmounts, pm \in PmIds :
    /\ CanAppend
    /\ getUserWallet(r, [Idle EXCEPT !.op = "deposit", !.userId = u,
                                     !.amount = a, !.pmId = pm])

\* DepositTx that adds the amount to the user's earlier deposit record, when
\* there is one, instead of appending a new record
DepositTxMerging(r) ==
  LET q == req[r]
      earlier == {i \in 1 .. Len(transactions) :
                    transactions[i].userId = q.userId /\ transactions[i].type = "deposit"} IN
  /\ q.pc = "deposit_tx"
  /\ transactions' =
       IF earlier = {}
       THEN Append(transactions,
              [userId |-> q.userId, amount |-> q.amount, type |-> "deposit", reference |-> 0])
       ELSE [transactions EXCEPT ![CHOOSE i \in earlier : TRUE].amount = @ + q.amount]
  /\ req' = [req EXCEPT ![r] = [q EXCEPT !.pc = "deposit_save",
                                         !.txId = IF earlier = {} THEN Len(transactions) + 1
                                                  ELSE CHOOSE i \in earlier : TRUE]]
  /\ UNCHANGED <<wallets, escrows, nextEscrow, nextPm>>

\* deposit: transaction = new Transaction(..); await transaction.save()
DepositTx(r) ==
  LET q == req[r] IN
  /\ q.pc = "deposit_tx"
  /\ transactions' = Append(transactions,
       [userId |-> q.userId, amount |-> q.amount, type |-> "deposit", reference |-> 0])
  /\ req' = [req EXCEPT ![r] = [q EXCEPT !.pc = "deposit_save",
                                         !.txId = Len(transactions) + 1]]
  /\ UNCHANGED <<wallets, escrows, nextEscrow, nextPm>>

\* req.wallet.balance += amount
DepositBalance(w, amount) == [w EXCEPT !.balance = @ + amount]

\* deposit: balance += amount; transactionIds.push; await req.wallet.save()
DepositSave(r) ==
  LET q == req[r]
      u == q.userId
      new == preSave(DepositBalance(q.wallet, q.amount)) IN
  /\ q.pc = "deposit_save"
  /\ ~WalletLockedByOther(r, u)
  /\ wallets' = [wallets EXCEPT ![u] =
       SaveWallet(@, q.wallet, new, <<>>, <<q.txId>>, <<>>)]
  /\ req' = [MarkStaleW(req, r, {u}) EXCEPT ![r] = NewBalance(q, new)]
  /\ UNCHANGED <<escrows, transactions, nextEscrow, nextPm>>

\* POST /wallet/:userId/withdraw
WithdrawBegin(r) ==
  \E u \in WalletUsers, a \in WithdrawAmounts, pm \in PmIds :
    /\ CanAppend
    /\ getUserWallet(r, [Idle EXCEPT !.op = "withdraw", !.userId = u,
                                     !.amount = a, !.pmId = pm])

\* withdraw: transaction = new Transaction(.. amount: -amount ..); await save()
WithdrawTx(r) ==
  LET q == req[r] IN
  /\ q.pc = "withdraw_tx"
  /\ transactions' = Append(transactions,
       [userId |-> q.userId, amount |-> -q.amount, type |-> "withdrawal", reference |-> 0])
  /\ req' = [req EXCEPT ![r] = [q EXCEPT !.pc = "withdraw_save",
                                         !.txId = Len(transactions) + 1]]
  /\ UNCHANGED <<wallets, escrows, nextEscrow, nextPm>>

\* req.wallet.balance -= amount
WithdrawBalance(w, amount) == [w EXCEPT !.balance = @ - amount]

\* withdraw: balance -= amount; transactionIds.push; await req.wallet.save()
WithdrawSave(r) ==
  LET q == req[r]
      u == q.userId
      new == preSave(WithdrawBalance(q.wallet, q.amount)) IN
  /\ q.pc = "withdraw_save"
  /\ ~WalletLockedByOther(r, u)
  /\ wallets' = [wallets EXCEPT ![u] =
       SaveWallet(@, q.wallet, new, <<>>, <<q.txId>>, <<>>)]
  /\ req' = [MarkStaleW(req, r, {u}) EXCEPT ![r] = NewBalance(q, new)]
  /\ UNCHANGED <<escrows, transactions, nextEscrow, nextPm>>

\* ------------------------------------------------- escrow route handlers
\* create: the two funds checks made on the wallet that getWallet returned
CreateChecks(q, w) ==
  LET availableBalance == getAvailableBalance(w) IN
  IF q.amount > availableBalance
    THEN InsufficientFunds(q, "400_funds_amount", availableBalance, q.amount)
  ELSE IF TotalAmount(q.amount) > availableBalance
    THEN InsufficientFunds(q, "400_funds_fee", availableBalance, TotalAmount(q.amount))
  ELSE [q EXCEPT !.pc = "create_tx", !.wallet = w]

\* create: the validation of the body, before anything is awaited: a missing
\* field (!amount holds for 0) or an amount <= 0 is answered 400 at once
CreateValidation(q) ==
  IF q.amount = 0 THEN Respond(q, "400_missing")
  ELSE IF q.amount <= 0 THEN Respond(q, "400_amount")
  ELSE q

CreatesInFlight ==
  Cardinality({s \in Slots : req[s].op = "create" /\ req[s].pc # "done"
                             /\ req[s].escrowId = 0})

CanCreate == nextEscrow + CreatesInFlight <= MaxEscrows

\* POST / : validation, then getWallet(clientId): Wallet.findOne({userId})
CreateBegin(r) ==
  \E c \in Clients, f \in Freelancers, a \in CreateAmounts :
    LET q == [Idle EXCEPT !.op = "create", !.userId = c, !.peer = f, !.amount = a] IN
    /\ req[r].pc = "idle"
    /\ CanCreate
    /\ CanAppend
    /\ req' = [req EXCEPT ![r] =
         IF CreateValidation(q).pc = "done" THEN CreateValidation(q)
         ELSE IF wallets[c] = NoDoc THEN [q EXCEPT !.pc = "getWallet_save"]
         ELSE CreateChecks(q, wallets[c])]
    /\ UNCHANGED <<wallets, escrows, transactions, nextEscrow, nextPm>>

\* getWallet: wallet = new Wallet(..); await wallet.save()
getWalletSave(r) ==
  LET q == req[r]
      u == q.userId IN
  /\ q.pc = "getWallet_save"
  /\ ~WalletLockedByOther(r, u)
  /\ IF wallets[u] # NoDoc
     THEN /\ req' = [req EXCEPT ![r] = Respond(q, Failed(q.op))]
          /\ UNCHANGED wallets
     ELSE /\ wallets' = [wallets EXCEPT ![u] = NewWallet(u)]
          /\ req' = [MarkStaleW(req, r, {u}) EXCEPT ![r] = CreateChecks(q, NewWallet(u))]
  /\ UNCHANGED <<escrows, transactions, nextEscrow, nextPm>>

\* create: escrow = new Escrow(..); transaction = new Transaction(..);
\* await transaction.save()
CreateTx(r) ==
  LET q == req[r] IN
  /\ q.pc = "create_tx"
  /\ nextEscrow' = nextEscrow + 1
  /\ transactions' = Append(transactions,
       [userId |-> q.userId, amount |-> -TotalAmount(q.amount), type |-> "escrow",
        reference |-> nextEscrow])
  /\ req' = [req EXCEPT ![r] = [q EXCEPT !.pc = "create_escrow", !.escrowId = nextEscrow,
                                         !.txId = Len(transactions) + 1]]
  /\ UNCHANGED <<wallets, escrows, nextPm>>

\* escrow = new Escrow({..}): status has the schema default, fundedAt is not set
NewEscrow(q) ==
  [clientId |-> q.userId, freelancerId |-> q.peer, amount |-> q.amount,
   platformFee |-> PlatformFee(q.amount), status |-> "created", fundedAt |-> FALSE,
   transactionId |-> 0, disputeReason |-> "none"]

\* FundedEscrow that saves the new escrow as it was constructed
FundedEscrowAsCreated(q) == [NewEscrow(q) EXCEPT !.transactionId = q.txId]

\* the escrow document as create saves it: escrow.transactionId = transaction._id;
\* escrow.status = 'funded'; escrow.fundedAt = new Date()
FundedEscrow(q) ==
  [NewEscrow(q) EXCEPT !.transactionId = q.txId, !.status = "funded", !.fundedAt = TRUE]

\* create: escrow.transactionId, status = 'funded', fundedAt; await escrow.save()
CreateEscrow(r) ==
  LET q == req[r] IN
  /\ q.pc = "create_escrow"
  /\ escrows' = [escrows EXCEPT ![q.escrowId] = FundedEscrow(q)]
  /\ req' = [req EXCEPT ![r] = [q EXCEPT !.pc = "create_wallet"]]
  /\ UNCHANGED <<wallets, transactions, nextEscrow, nextPm>>

\* ReserveFunds with the debit of the amount alone, the fee forgotten
ReserveFundsWithoutFee(w, escrowId, amount) ==
  [w EXCEPT !.balance = @ - amount,
            !.reservedBalance = @ + amount,
            !.escrowReserves = Append(@, [escrowId |-> escrowId, amount |-> amount])]

\* create: the local update of the client wallet (reserve the funds)
ReserveFunds(w, escrowId, amount) ==
  [w EXCEPT !.balance = @ - TotalAmount(amount),
            !.reservedBalance = @ + amount,
            !.escrowReserves = Append(@, [escrowId |-> escrowId, amount |-> amount])]

\* create: update the client wallet; await clientWallet.save()
CreateWallet(r) ==
  LET q == req[r]
      u == q.userId
      new == preSave(ReserveFunds(q.wallet, q.escrowId, q.amount)) IN
  /\ q.pc = "create_wallet"
  /\ ~WalletLockedByOther(r, u)
  /\ wallets' = [wallets EXCEPT ![u] =
       SaveWallet(@, q.wallet, new,
                  <<[escrowId |-> q.escrowId, amount |-> q.amount]>>, <<q.txId>>, <<>>)]
  /\ req' = [MarkStaleW(req, r, {u}) EXCEPT ![r] =
       Respond(q, "201")]
  /\ UNCHANGED <<escrows, transactions, nextEscrow, nextPm>>

\* the party a transition is reserved to, the status it requires and sets
Party(op, e) == IF op \in {"start", "deliver"} THEN e.freelancerId ELSE e.clientId

RequiredStatus(op) ==
  CASE op = "start" -> "funded"
    [] op = "deliver" -> "in_progress"
    [] OTHER -> "delivered"

TargetStatus(op) ==
  CASE op = "start" -> "in_progress"
    [] op = "deliver" -> "delivered"
    [] op = "approve" -> "approved"
    [] OTHER -> "disputed"

\* TransitionChecks with the status looked at before the caller
TransitionChecksStatusFirst(q, e) ==
  IF e = NoDoc THEN Respond(q, "404")
  ELSE IF e.status # RequiredStatus(q.op) THEN Respond(q, "400_state")
  ELSE IF Party(q.op, e) # q.userId THEN Respond(q, "403")
  ELSE [q EXCEPT !.pc = IF q.op = "approve" THEN "approve_session" ELSE "transition_save"]

\* start, deliver, approve, reject: Escrow.findById, then 404 / 403 / 400
TransitionChecks(q, e) ==
  IF e = NoDoc THEN Respond(q, "404")
  ELSE IF Party(q.op, e) # q.userId THEN Respond(q, "403")
  ELSE IF e.status # RequiredStatus(q.op) THEN Respond(q, "400_state")
  ELSE [q EXCEPT !.pc = IF q.op = "approve" THEN "approve_session" ELSE "transition_save"]

TransitionBegin(r, op) ==
  \E id \in EscrowIds, u \in Users,
     reason \in (IF op = "reject" THEN DisputeReasons ELSE {"none"}) :
    LET q == [Idle EXCEPT !.op = op, !.userId = u, !.escrowId = id, !.reason = reason] IN
    /\ req[r].pc = "idle"
    /\ req' = [req EXCEPT ![r] = TransitionChecks(q, escrows[id])]
    /\ UNCHANGED <<wallets, escrows, transactions, nextEscrow, nextPm>>

\* POST /:escrowId/start
StartBegin(r) == TransitionBegin(r, "start")

\* POST /:escrowId/deliver
DeliverBegin(r) == TransitionBegin(r, "deliver")

\* POST /:escrowId/reject
RejectBegin(r) == TransitionBegin(r, "reject")

\* POST /:escrowId/approve
ApproveBegin(r) == CanAppend /\ TransitionBegin(r, "approve")

\* start, deliver, reject: the paths of the escrow that the handler sets
ApplyTransition(e, q) ==
  [e EXCEPT !.status = TargetStatus(q.op),
            !.disputeReason = IF q.op = "reject" THEN q.reason ELSE @]

\* TransitionSave that also gives the reserve of a rejected escrow back
TransitionSaveReleasing(r) ==
  LET q == req[r]
      c == escrows[q.escrowId].clientId IN
  /\ q.pc = "transition_save"
  /\ ~EscrowLockedByOther(r, q.escrowId)
  /\ escrows' = [escrows EXCEPT ![q.escrowId] = ApplyTransition(@, q)]
  /\ wallets' = IF q.op = "reject" /\ wallets[c] # NoDoc
                THEN [wallets EXCEPT ![c] = recalculateReservedBalance(
                       [@ EXCEPT !.escrowReserves =
                          SelectSeq(@, LAMBDA x : x.escrowId # q.escrowId)])]
                ELSE wallets
  /\ req' = [MarkStaleE(req, r, q.escrowId) EXCEPT ![r] =
       Respond(q, "200")]
  /\ UNCHANGED <<transactions, nextEscrow, nextPm>>

\* start, deliver, reject: escrow.status = ..; await escrow.save()
TransitionSave(r) ==
  LET q == req[r] IN
  /\ q.pc = "transition_save"
  /\ ~EscrowLockedByOther(r, q.escrowId)
  /\ escrows' = [escrows EXCEPT ![q.escrowId] = ApplyTransition(@, q)]
  /\ req' = [MarkStaleE(req, r, q.escrowId) EXCEPT ![r] =
       Respond(q, "200")]
  /\ UNCHANGED <<wallets, transactions, nextEscrow, nextPm>>

\* Abort that runs the transaction again from its reads, as an engine with
\* automatic retry would
AbortRetrying(q) == [q EXCEPT !.pc = "approve_read", !.staleW = {}, !.staleE = FALSE]

\* catch (transactionError): await session.abortTransaction()
Abort(q) == [q EXCEPT !.pc = "approve_abort", !.abortedAt = q.pc]

\* approve: const session = await mongoose.startSession(); session.startTransaction()
ApproveSession(r) ==
  LET q == req[r] IN
  /\ q.pc = "approve_session"
  /\ req' = [req EXCEPT ![r] = [q EXCEPT !.pc = "approve_read"]]
  /\ UNCHANGED <<wallets, escrows, transactions, nextEscrow, nextPm>>

\* approve: clientWallet = await Wallet.findOne({userId: escrow.clientId}).session(session)
\* (the first operation of the transaction)
ApproveRead(r) ==
  LET q == req[r]
      e == escrows[q.escrowId] IN
  /\ q.pc = "approve_read"
  /\ req' = [req EXCEPT ![r] = [q EXCEPT !.pc = "approve_read_f",
                                         !.wallet = wallets[e.clientId]]]
  /\ UNCHANGED <<wallets, escrows, transactions, nextEscrow, nextPm>>

\* approve: freelancerWallet = await Wallet.findOne({userId: escrow.freelancerId})
\* .session(session); then the local updates (clientWallet.escrowReserves of a
\* missing client wallet throws)
ApproveReadFreelancer(r) ==
  LET q == req[r]
      e == escrows[q.escrowId] IN
  /\ q.pc = "approve_read_f"
  /\ req' = [req EXCEPT ![r] =
       IF q.wallet = NoDoc
       THEN Abort(q)
       ELSE [q EXCEPT !.pc = "approve_tx", !.fwallet = wallets[e.freelancerId]]]
  /\ UNCHANGED <<wallets, escrows, transactions, nextEscrow, nextPm>>

\* approve: await transaction.save({session})
ApproveTx(r) ==
  LET q == req[r] IN
  /\ q.pc = "approve_tx"
  /\ req' = [req EXCEPT ![r] = [q EXCEPT !.pc = "approve_escrow"]]
  /\ UNCHANGED <<wallets, escrows, transactions, nextEscrow, nextPm>>

\* approve: await escrow.save({session})
ApproveEscrow(r) ==
  LET q == req[r] IN
  /\ q.pc = "approve_escrow"
  /\ req' = [req EXCEPT ![r] =
       IF q.staleE \/ EscrowLockedByOther(r, q.escrowId)
       THEN Abort(q) ELSE [q EXCEPT !.pc = "approve_client"]]
  /\ UNCHANGED <<wallets, escrows, transactions, nextEscrow, nextPm>>

\* approve: abortTransaction is over; session.endSession(); throw: the catch of
\* the route answers 500
ApproveAbort(r) ==
  LET q == req[r] IN
  /\ q.pc = "approve_abort"
  /\ req' = [req EXCEPT ![r] = Respond(q, Failed(q.op))]
  /\ UNCHANGED <<wallets, escrows, transactions, nextEscrow, nextPm>>

\* approve: await clientWallet.save({session})
ApproveClient(r) ==
  LET q == req[r]
      c == escrows[q.escrowId].clientId IN
  /\ q.pc = "approve_client"
  /\ req' = [req EXCEPT ![r] =
       IF c \in q.staleW \/ WalletLockedByOther(r, c)
       THEN Abort(q) ELSE [q EXCEPT !.pc = "approve_freelancer"]]
  /\ UNCHANGED <<wallets, escrows, transactions, nextEscrow, nextPm>>

\* approve: await freelancerWallet.save({session})
ApproveFreelancer(r) ==
  LET q == req[r]
      f == escrows[q.escrowId].freelancerId IN
  /\ q.pc = "approve_freelancer"
  /\ req' = [req EXCEPT ![r] =
       IF f \in q.staleW \/ WalletLockedByOther(r, f)
       THEN Abort(q) ELSE [q EXCEPT !.pc = "approve_commit"]]
  /\ UNCHANGED <<wallets, escrows, transactions, nextEscrow, nextPm>>

\* clientWallet.escrowReserves.findIndex(reserve => reserve.escrowId == escrowId)
ReserveIndex(w, escrowId) ==
  IF \E i \in 1 .. Len(w.escrowReserves) : w.escrowReserves[i].escrowId = escrowId
  THEN CHOOSE i \in 1 .. Len(w.escrowReserves) :
         /\ w.escrowReserves[i].escrowId = escrowId
         /\ \A j \in 1 .. (i - 1) : w.escrowReserves[j].escrowId # escrowId
  ELSE 0

\* Array.splice(i, 1)
Splice(s, i) == SubSeq(s, 1, i - 1) \o SubSeq(s, i + 1, Len(s))

\* approve: remove the escrow reserve from the client wallet (local document)
ReleaseReserve(w, escrowId) ==
  LET i == ReserveIndex(w, escrowId) IN
  IF i # 0
  THEN recalculateReservedBalance([w EXCEPT !.escrowReserves = Splice(@, i)])
  ELSE w

\* CreditFreelancer paying out the total, fee included
CreditFreelancerWithFee(w, amount) == [w EXCEPT !.balance = @ + TotalAmount(amount)]

\* approve: freelancerWallet.balance += escrow.amount
CreditFreelancer(w, amount) == [w EXCEPT !.balance = @ + amount]

\* SaveClientWallet that leaves the client's wallet as it is
SaveClientWalletSkipped(db, orig, escrowId) == db

\* approve: the client wallet as the transaction writes it: the spliced array
\* goes as $set of the whole array and increments the version key
SaveClientWallet(db, orig, escrowId) ==
  LET new == preSave(ReleaseReserve(orig, escrowId)) IN
  IF ReserveIndex(orig, escrowId) # 0
  THEN [SaveWallet(db, orig, new, <<>>, <<>>, <<>>) EXCEPT
          !.escrowReserves = new.escrowReserves, !.v = @ + 1]
  ELSE SaveWallet(db, orig, new, <<>>, <<>>, <<>>)

\* approve: the freelancer wallet as the transaction writes it (an insert when
\* the wallet did not exist)
SaveFreelancerWallet(db, orig, f, amount) ==
  IF orig = NoDoc
  THEN preSave(CreditFreelancer(NewWallet(f), amount))
  ELSE SaveWallet(db, orig, preSave(CreditFreelancer(orig, amount)), <<>>, <<>>, <<>>)

\* approve: await session.commitTransaction()
ApproveCommit(r) ==
  LET q == req[r]
      e == escrows[q.escrowId]
      c == e.clientId
      f == e.freelancerId IN
  /\ q.pc = "approve_commit"
  /\ transactions' = Append(transactions,
       [userId |-> f, amount |-> e.amount, type |-> "payment", reference |-> q.escrowId])
  /\ escrows' = [escrows EXCEPT ![q.escrowId].status = TargetStatus("approve")]
  /\ wallets' = [wallets EXCEPT
       ![c] = SaveClientWallet(@, q.wallet, q.escrowId),
       ![f] = SaveFreelancerWallet(@, q.fwallet, f, e.amount)]
  /\ req' = [MarkStaleE(MarkStaleW(req, r, {c, f}), r, q.escrowId) EXCEPT ![r] =
       Respond(q, "200")]
  /\ UNCHANGED <<nextEscrow, nextPm>>

\* the response was sent: the slot is free for the next request
Finish(r) ==
  /\ req[r].pc = "done"
  /\ req' = [req EXCEPT ![r] = Idle]
  /\ UNCHANGED <<wallets, escrows, transactions, nextEscrow, nextPm>>

Step(r) ==
    \/ GetWalletBegin(r)
    \/ AddPaymentMethodBegin(r)
    \/ getUserWalletSave(r)
    \/ AddPaymentMethodSave(r)
    \/ DepositBegin(r)
    \/ DepositTx(r)
    \/ DepositSave(r)
    \/ WithdrawBegin(r)
    \/ WithdrawTx(r)
    \/ WithdrawSave(r)
    \/ CreateBegin(r)
    \/ getWalletSave(r)
    \/ CreateTx(r)
    \/ CreateEscrow(r)
    \/ CreateWallet(r)
    \/ StartBegin(r)
    \/ DeliverBegin(r)
    \/ RejectBegin(r)
    \/ ApproveBegin(r)
    \/ TransitionSave(r)
    \/ ApproveSession(r)
    \/ ApproveRead(r)
    \/ ApproveReadFreelancer(r)
    \/ ApproveTx(r)
    \/ ApproveEscrow(r)
    \/ ApproveAbort(r)
    \/ ApproveClient(r)
    \/ ApproveFreelancer(r)
    \/ ApproveCommit(r)
    \/ Finish(r)

\* concurrent requests: any slot may take its next step
Next == \E r \in Slots : Step(r)

Spec == Init /\ [][Next]_vars

\* no other request is in flight
Alone(r) == \A s \in Slots \ {r} : req[s].pc \in {"idle", "done"}

\* requests served one at a time: a request runs to its response before the
\* next one starts
NextSeq == \E r \in Slots : Alone(r) /\ Step(r)

SpecSeq == Init /\ [][NextSeq]_vars

\* ------------------------------------------------- payment-method routes
\* The payment-method routes on their own.  They meet the money routes only in
\* the lookup of deposit and withdraw (a 404) and in the wallet's version key,
\* so the specifications above run with one method per wallet and these run
\* the method bookkeeping with up to MaxMethodsAlone methods.
StepMethods(r) ==
    \/ GetWalletBegin(r)
    \/ AddPaymentMethod(r, MaxMethodsAlone)
    \/ getUserWalletSave(r)
    \/ AddPaymentMethodSave(r)
    \/ RemovePaymentMethodBegin(r)
    \/ RemovePaymentMethodSave(r)
    \/ SetDefaultPaymentMethodBegin(r)
    \/ SetDefaultPaymentMethodSave(r)
    \/ Finish(r)

\* concurrent requests to the payment-method routes
NextMethods == \E r \in Slots : StepMethods(r)

SpecMethods == Init /\ [][NextMethods]_vars

\* requests to the payment-method routes served one at a time
NextMethodsSeq == \E r \in Slots : Alone(r) /\ StepMethods(r)

SpecMethodsSeq == Init /\ [][NextMethodsSeq]_vars

\* ------------------------------------------------------------ store failure
\* an awaited store operation rejects (the store is unreachable, times out or
\* refuses the write): the handler's catch answers 500; what the request saved
\* before stays, and a session transaction is aborted as a whole
StoreFails(r) ==
  LET q == req[r] IN
  /\ q.pc \notin {"idle", "done"}
  /\ req' = [req EXCEPT ![r] =
       IF q.pc = "getUserWallet_save" THEN Respond(q, "500_wallet")
       ELSE IF q.pc \in {"approve_read"} \cup TxnPcs THEN Abort(q)
       ELSE Respond(q, Failed(q.op))]
  /\ UNCHANGED <<wallets, escrows, transactions, nextEscrow, nextPm>>

\* the operations of the wallet routes, which all pass through getUserWallet
WalletOps == {"getWallet", "addPaymentMethod", "removePaymentMethod",
              "setDefaultPaymentMethod", "deposit", "withdraw"}

EscrowOps == {"create", "start", "deliver", "approve", "reject"}

\* the first awaited read of a request rejects: Wallet.findOne of
\* getUserWallet (its catch answers 500 'Failed to retrieve wallet'),
\* Wallet.findOne of getWallet in create, Escrow.findById of a transition (the
\* catch of the route answers 500)
ReadFails(r) ==
  /\ req[r].pc = "idle"
  /\ \E op \in WalletOps \cup EscrowOps :
       req' = [req EXCEPT ![r] =
         Respond([Idle EXCEPT !.op = op],
                 IF op \in WalletOps THEN "500_wallet" ELSE Failed(op))]
  /\ UNCHANGED <<wallets, escrows, transactions, nextEscrow, nextPm>>

\* requests served one at a time by a store whose operations may fail
NextFail == \E r \in Slots : Alone(r) /\ (Step(r) \/ StoreFails(r) \/ ReadFails(r))

SpecFail == Init /\ [][NextFail]_vars


\* the next step of a request that is being handled: the store answers the
\* awaited operation
Progress(r) == req[r].pc \notin {"idle", "done"} /\ Step(r)

\* ------------------------------------------------------- fallback store
\* The in-memory store used when MongoDB is not connected (req.useMockData).
\* In SpecMock the variable wallets holds mockWallets of the wallet routes and
\* escrows holds mockEscrows of the escrow routes; the mock Transactions are
\* only returned to the caller and never stored.  The mock branches of the
\* wallet routes and of start, deliver and reject await nothing: such a request
\* is one step.  The mock branches of create and approve await getWallet, and
\* other handlers run while they wait.
MockUsers == {"usr123", "freelancer1"}
MockWalletUsers == MockUsers
MockClients == {"usr123"}
MockFreelancers == {"freelancer1"}
MockPmIds == 1 .. (MaxMockMethods + 1)
MockWithdrawAmounts == {500}

\* mockWallets: the initial fallback data
MockWallets ==
  [u \in MockUsers |->
     IF u = "usr123"
     THEN [userId |-> "usr123", balance |-> 500, reservedBalance |-> 100,
           escrowReserves |-> <<>>,
           paymentMethods |-> <<[id |-> 1, isDefault |-> TRUE]>>]
     ELSE NoDoc]

InitMock ==
  /\ wallets = MockWallets
  /\ escrows = [e \in EscrowIds |-> NoDoc]
  /\ transactions = <<>>
  /\ nextEscrow = 1
  /\ nextPm = 2
  /\ req = [s \in Slots |-> Idle]

\* getUserWallet, mock branch: req.wallet = mockWallets[userId] || {a new object}
MockGetUserWallet(u) ==
  IF wallets[u] # NoDoc THEN wallets[u]
  ELSE [userId |-> u, balance |-> 0, reservedBalance |-> 0, paymentMethods |-> <<>>]

\* getWallet, mock branch: a new object on every call
MockGetWallet(u) ==
  [userId |-> u, balance |-> 1000, reservedBalance |-> 0, escrowReserves |-> <<>>]

\* a mock wallet route: the checks of the route, then the update of req.wallet
\* and mockWallets[userId] = req.wallet, and the response
MockWalletRoute(r, q, out, new, answer) ==
  /\ req[r].pc = "idle"
  /\ IF out.pc = "done"
     THEN /\ req' = [req EXCEPT ![r] = out]
          /\ UNCHANGED wallets
     ELSE /\ req' = [req EXCEPT ![r] = answer]
          /\ wallets' = [wallets EXCEPT ![q.userId] = new]
  /\ UNCHANGED <<escrows, transactions, nextEscrow>>

\* GET /wallet/:userId, mock branch: res.json(req.wallet); the object that
\* getUserWallet makes for an unknown user is not kept
MockGetWalletRoute(r) ==
  \E u \in MockUsers :
    /\ req[r].pc = "idle"
    /\ req' = [req EXCEPT ![r] =
         Respond([Idle EXCEPT !.op = "getWallet", !.userId = u], "200")]
    /\ UNCHANGED <<wallets, escrows, transactions, nextEscrow, nextPm>>

\* POST /wallet/:userId/payment-methods, mock branch
MockAddPaymentMethod(r) ==
  \E u \in MockWalletUsers, d \in BOOLEAN :
    LET q == [Idle EXCEPT !.op = "addPaymentMethod", !.userId = u, !.isDefault = d]
        w == MockGetUserWallet(u)
        isDefault == d \/ Len(w.paymentMethods) = 0
        newMethod == [id |-> nextPm, isDefault |-> isDefault]
        cleared == IF isDefault THEN ClearDefaults(w.paymentMethods) ELSE w.paymentMethods IN
    /\ nextPm <= MaxMockMethods
    /\ nextPm' = nextPm + 1
    /\ MockWalletRoute(r, q, [q EXCEPT !.pc = "addpm_save"],
                       [w EXCEPT !.paymentMethods = Append(cleared, newMethod)],
                       Respond(q, "201"))

\* DELETE /wallet/:userId/payment-methods/:methodId, mock branch
MockRemovePaymentMethod(r) ==
  \E u \in MockWalletUsers, pm \in MockPmIds :
    LET q == [Idle EXCEPT !.op = "removePaymentMethod", !.userId = u, !.pmId = pm]
        w == MockGetUserWallet(u) IN
    /\ UNCHANGED nextPm
    /\ MockWalletRoute(r, q, RemoveChecks(q, w),
                       [w EXCEPT !.paymentMethods = RemoveMethod(@, pm)],
                       Respond(q, "200"))

\* PUT /wallet/:userId/payment-methods/:methodId/default, mock branch
MockSetDefaultPaymentMethod(r) ==
  \E u \in MockWalletUsers, pm \in MockPmIds :
    LET q == [Idle EXCEPT !.op = "setDefaultPaymentMethod", !.userId = u, !.pmId = pm]
        w == MockGetUserWallet(u) IN
    /\ UNCHANGED nextPm
    /\ MockWalletRoute(r, q, SetDefaultChecks(q, w),
                       [w EXCEPT !.paymentMethods = SetDefault(@, pm)],
                       Respond(q, "200"))

\* POST /wallet/:userId/deposit, mock branch
MockDeposit(r) ==
  \E u \in MockWalletUsers, a \in DepositAmounts, pm \in MockPmIds :
    LET q == [Idle EXCEPT !.op = "deposit", !.userId = u, !.amount = a, !.pmId = pm]
        w == MockGetUserWallet(u) IN
    /\ w.balance + a <= MaxMockBalance
    /\ UNCHANGED nextPm
    /\ MockWalletRoute(r, q, DepositChecks(q, w), DepositBalance(w, a),
                       NewBalance(q, DepositBalance(w, a)))

\* POST /wallet/:userId/withdraw, mock branch
MockWithdraw(r) ==
  \E u \in MockWalletUsers, a \in MockWithdrawAmounts, pm \in MockPmIds :
    LET q == [Idle EXCEPT !.op = "withdraw", !.userId = u, !.amount = a, !.pmId = pm]
        w == MockGetUserWallet(u) IN
    /\ UNCHANGED nextPm
    /\ MockWalletRoute(r, q, WithdrawChecks(q, w), WithdrawBalance(w, a),
                       NewBalance(q, WithdrawBalance(w, a)))

\* the escrow object that the mock branch of create pushes to mockEscrows
MockEscrow(q) ==
  [clientId |-> q.userId, freelancerId |-> q.peer, amount |-> q.amount,
   platformFee |-> PlatformFee(q.amount), status |-> "created", fundedAt |-> FALSE,
   disputeReason |-> "none"]

\* create (mock branch): escrow.status = 'funded'; escrow.fundedAt = ..; in the
\* same synchronous block as mockEscrows.push(escrow)
MockFunded(e) == [e EXCEPT !.status = "funded", !.fundedAt = TRUE]

\* POST /, mock branch, up to await getWallet(clientId, true): the validation
\* of the body
MockCreateBegin(r) ==
  \E c \in MockClients, f \in MockFreelancers, a \in CreateAmounts :
    LET q == [Idle EXCEPT !.op = "create", !.userId = c, !.peer = f, !.amount = a] IN
    /\ req[r].pc = "idle"
    /\ nextEscrow + Cardinality({s \in Slots : req[s].pc = "mockcreate_wallet"})
         <= MaxEscrows
    /\ req' = [req EXCEPT ![r] =
         IF CreateValidation(q).pc = "done" THEN CreateValidation(q)
         ELSE [q EXCEPT !.pc = "mockcreate_wallet"]]
    /\ UNCHANGED <<wallets, escrows, transactions, nextEscrow, nextPm>>

\* POST /, mock branch, after getWallet: the funds checks and the reservation
\* are made on the object that getWallet returns, which no store keeps;
\* mockEscrows.push(escrow)
MockCreate(r) ==
  LET q == req[r]
      out == CreateChecks(q, MockGetWallet(q.userId)) IN
  /\ q.pc = "mockcreate_wallet"
  /\ IF out.pc = "done"
     THEN /\ req' = [req EXCEPT ![r] = out]
          /\ UNCHANGED <<escrows, nextEscrow>>
     ELSE /\ req' = [req EXCEPT ![r] = Respond(q, "201")]
          /\ escrows' = [escrows EXCEPT ![nextEscrow] = MockFunded(MockEscrow(q))]
          /\ nextEscrow' = nextEscrow + 1
  /\ UNCHANGED <<wallets, transactions, nextPm>>

\* POST /:escrowId/start, deliver, reject, mock branch: the checks, then the
\* update of the escrow object in mockEscrows, with nothing awaited.
\* POST /:escrowId/approve, mock branch: the checks, up to
\* await getWallet(escrow.clientId, true)
MockTransition(r, op) ==
  \E id \in EscrowIds, u \in MockUsers,
     reason \in (IF op = "reject" THEN DisputeReasons ELSE {"none"}) :
    LET q == [Idle EXCEPT !.op = op, !.userId = u, !.escrowId = id, !.reason = reason]
        out == TransitionChecks(q, escrows[id]) IN
    /\ req[r].pc = "idle"
    /\ IF out.pc = "done"
       THEN /\ req' = [req EXCEPT ![r] = out]
            /\ UNCHANGED escrows
       ELSE IF op = "approve"
       THEN /\ req' = [req EXCEPT ![r] = [q EXCEPT !.pc = "mockapprove_client"]]
            /\ UNCHANGED escrows
       ELSE /\ req' = [req EXCEPT ![r] = Respond(q, "200")]
            /\ escrows' = [escrows EXCEPT ![id] = ApplyTransition(@, q)]
    /\ UNCHANGED <<wallets, transactions, nextEscrow, nextPm>>

MockStart(r) == MockTransition(r, "start")

MockDeliver(r) == MockTransition(r, "deliver")

MockApproveBegin(r) == MockTransition(r, "approve")

MockReject(r) == MockTransition(r, "reject")

\* approve, mock branch: clientWallet is there;
\* freelancerWallet = await getWallet(escrow.freelancerId, true)
MockApproveClient(r) ==
  LET q == req[r] IN
  /\ q.pc = "mockapprove_client"
  /\ req' = [req EXCEPT ![r] = [q EXCEPT !.pc = "mockapprove_freelancer"]]
  /\ UNCHANGED <<wallets, escrows, transactions, nextEscrow, nextPm>>

\* approve, mock branch, after the two getWallet: escrow.status = 'approved' on
\* the object found before the awaits; the two objects that getWallet returned
\* are changed and a transaction object is built, and none of them is kept
MockApprove(r) ==
  LET q == req[r] IN
  /\ q.pc = "mockapprove_freelancer"
  /\ req' = [req EXCEPT ![r] = Respond(q, "200")]
  /\ escrows' = [escrows EXCEPT ![q.escrowId] = ApplyTransition(@, q)]
  /\ UNCHANGED <<wallets, transactions, nextEscrow, nextPm>>

StepMock(r) ==
    \/ MockGetWalletRoute(r)
    \/ MockAddPaymentMethod(r)
    \/ MockRemovePaymentMethod(r)
    \/ MockSetDefaultPaymentMethod(r)
    \/ MockDeposit(r)
    \/ MockWithdraw(r)
    \/ MockCreateBegin(r)
    \/ MockCreate(r)
    \/ MockStart(r)
    \/ MockDeliver(r)
    \/ MockApproveBegin(r)
    \/ MockApproveClient(r)
    \/ MockApprove(r)
    \/ MockReject(r)
    \/ Finish(r)

NextMock == \E r \in Slots : StepMock(r)

SpecMock == InitMock /\ [][NextMock]_vars

\* ------------------------------------------------------------ properties
Existing == {u \in Users : wallets[u] # NoDoc}

Stored == {id \in EscrowIds : escrows[id] # NoDoc}

\* no request is between its first store operation and its response
Quiescent == \A r \in Slots : req[r].pc \in {"idle", "done"}

OpenStatuses == {"funded", "in_progress", "delivered", "disputed"}

ClosedStatuses == {"approved", "refunded", "cancelled", "released"}

RECURSIVE SumTx(_, _)
SumTx(log, u) ==
  IF log = <<>> THEN 0
  ELSE (IF log[1].userId = u THEN log[1].amount ELSE 0) + SumTx(Tail(log), u)

RECURSIVE SumType(_, _)
SumType(log, t) ==
  IF log = <<>> THEN 0
  ELSE (IF log[1].type = t THEN log[1].amount ELSE 0) + SumType(Tail(log), t)

ReservesFor(w, id) ==
  {i \in 1 .. Len(w.escrowReserves) : w.escrowReserves[i].escrowId = id}

Payments(id) ==
  {i \in 1 .. Len(transactions) :
     transactions[i].type = "payment" /\ transactions[i].reference = id}

Balance(u) == IF wallets[u] = NoDoc THEN 0 ELSE wallets[u].balance

RECURSIVE HeldUpTo(_)
HeldUpTo(n) ==
  IF n = 0 THEN 0
  ELSE (IF escrows[n] # NoDoc /\ escrows[n].status \in OpenStatuses
        THEN escrows[n].amount ELSE 0) + HeldUpTo(n - 1)

RECURSIVE FeesUpTo(_)
FeesUpTo(n) ==
  IF n = 0 THEN 0
  ELSE (IF escrows[n] # NoDoc THEN escrows[n].platformFee ELSE 0) + FeesUpTo(n - 1)

RECURSIVE EscrowedFor(_, _)
EscrowedFor(n, u) ==
  IF n = 0 THEN 0
  ELSE (IF escrows[n] # NoDoc /\ escrows[n].freelancerId = u
        THEN escrows[n].amount ELSE 0) + EscrowedFor(n - 1, u)

\* C1: every wallet satisfies balance >= reservedBalance >= 0.
C1_BalanceCoversReserved ==
  \A u \in Existing :
    /\ wallets[u].balance >= wallets[u].reservedBalance
    /\ wallets[u].reservedBalance >= 0

\* C2: for every wallet, reservedBalance is the sum of its escrowReserves amounts.
C2_ReservedIsSumOfReserves ==
  \A u \in Existing :
    wallets[u].reservedBalance = SumAmounts(wallets[u].escrowReserves)

\* C3: reconciliation: once no request is in flight, each wallet's balance is the
\* sum of the amounts of the Transactions recorded for its userId.
C3_Reconciliation ==
  Quiescent => \A u \in Users : Balance(u) = SumTx(transactions, u)

\* C4: an escrow is paid out at most once, also when two approve calls race:
\* at most one payment Transaction references it, and the recipient's balance
\* never exceeds the amounts of the escrows made out to the recipient.
C4_CreditedOnce ==
  /\ \A id \in EscrowIds : Cardinality(Payments(id)) <= 1
  /\ \A u \in Freelancers : Balance(u) <= EscrowedFor(MaxEscrows, u)

\* C5: once no request is in flight, an open escrow has exactly one reserve entry
\* of its amount in the client's wallet and a closed escrow has none.
C5_ReserveMatchesStatus ==
  Quiescent =>
    \A id \in Stored :
      LET e == escrows[id]
          w == wallets[e.clientId] IN
      /\ w # NoDoc
      /\ e.status \in OpenStatuses =>
           /\ Cardinality(ReservesFor(w, id)) = 1
           /\ \A i \in ReservesFor(w, id) : w.escrowReserves[i].amount = e.amount
      /\ e.status \in ClosedStatuses => ReservesFor(w, id) = {}

\* C6: conservation of money: once no request is in flight, the wallet balances
\* plus the amounts held by open escrows plus the platform fees equal the
\* deposits minus the withdrawals.
C6_Conservation ==
  Quiescent =>
    Balance("c") + Balance("f") + HeldUpTo(MaxEscrows) + FeesUpTo(MaxEscrows)
      = SumType(transactions, "deposit") + SumType(transactions, "withdrawal")

\* C7: the funds check of a withdraw or a create is valid at its commit: when the
\* operation writes the wallet, the stored available balance (balance -
\* reservedBalance) still covers what it takes (amount, or amount + fee), so two
\* operations that the balance covers only one of never both succeed.
C7_FundsCheckValidAtCommit ==
  [][\A r \in Slots :
       /\ (req[r].pc = "withdraw_save" /\ req'[r].pc = "done") =>
            req[r].amount <= getAvailableBalance(wallets[req[r].userId])
       /\ (req[r].pc = "create_wallet" /\ req'[r].pc = "done") =>
            TotalAmount(req[r].amount) <= getAvailableBalance(wallets[req[r].userId])
    ]_vars

AllowedEdges ==
  {<<"funded", "in_progress">>, <<"in_progress", "delivered">>,
   <<"delivered", "approved">>, <<"delivered", "disputed">>}

\* C8: a stored escrow's status changes only along funded -> in_progress,
\* in_progress -> delivered, delivered -> approved and delivered -> disputed.
C8_StatusEdges ==
  [][\A id \in EscrowIds :
       (escrows[id] # NoDoc /\ escrows'[id].status # escrows[id].status) =>
         <<escrows[id].status, escrows'[id].status>> \in AllowedEdges
    ]_vars

EscrowTxs(id) ==
  {i \in 1 .. Len(transactions) :
     transactions[i].type = "escrow" /\ transactions[i].reference = id}

\* C9: with requests served one at a time, the step that completes a create has
\* stored platformFee = 5% of amount, debits the client's balance by
\* total = amount + platformFee, raises reservedBalance by amount, appends the
\* reserve entry {escrowId, amount}, has appended exactly one
\* Transaction(escrow, -total, reference = escrow) and leaves the escrow funded;
\* balance 1000 and amount 100 give balance 895, reserved 100, available 795.
C9_CreateEffect ==
  [][\A r \in Slots :
       (req[r].pc = "create_wallet" /\ req'[r].pc = "done") =>
         LET q == req[r]
             id == q.escrowId
             w == wallets[q.userId]
             fee == escrows[id].platformFee
             total == q.amount + fee IN
         /\ req'[r].res = "201"
         /\ fee * 100 = q.amount * 5
         /\ wallets'[q.userId].balance = w.balance - total
         /\ wallets'[q.userId].reservedBalance = w.reservedBalance + q.amount
         /\ wallets'[q.userId].escrowReserves =
              Append(w.escrowReserves, [escrowId |-> id, amount |-> q.amount])
         /\ EscrowTxs(id) = {q.txId}
         /\ transactions[q.txId] =
              [userId |-> q.userId, amount |-> -total, type |-> "escrow", reference |-> id]
         /\ transactions' = transactions
         /\ escrows'[id].status = "funded"
         /\ escrows'[id].amount = q.amount
         /\ (w.balance = 1000 /\ w.reservedBalance = 0 /\ q.amount = 100) =>
              /\ wallets'[q.userId].balance = 895
              /\ wallets'[q.userId].reservedBalance = 100
              /\ getAvailableBalance(wallets'[q.userId]) = 795
    ]_vars

\* a create of amount 100 on a balance of 1000 has just answered 201
C9_Witness ==
  /\ wallets["c"] # NoDoc
  /\ wallets["c"].balance = 895
  /\ wallets["c"].reservedBalance = 100
  /\ wallets["c"].escrowReserves = <<[escrowId |-> 1, amount |-> 100]>>
  /\ escrows[1] # NoDoc
  /\ escrows[1].status = "funded"
  /\ escrows[1].platformFee = 5
  /\ \E r \in Slots : req[r].pc = "done" /\ req[r].res = "201"

\* C10: with requests served one at a time, an escrow is stored as funded and
\* reaches in_progress only from funded, delivered only from in_progress and
\* approved only from delivered; the step that commits approve lowers the
\* client's reservedBalance by escrow.amount (to 0 when it was the only reserve),
\* leaves the client's balance unchanged, raises the recipient's balance by
\* exactly escrow.amount, and the fee stays out of both wallets (the balances,
\* the amounts still held and the fees add up to deposits minus withdrawals).
C10_HappyPath ==
  [][/\ \A id \in EscrowIds :
          /\ (escrows[id] = NoDoc /\ escrows'[id] # NoDoc) => escrows'[id].status = "funded"
          /\ (escrows[id] # NoDoc /\ escrows'[id].status # escrows[id].status) =>
               /\ escrows'[id].status = "in_progress" => escrows[id].status = "funded"
               /\ escrows'[id].status = "delivered" => escrows[id].status = "in_progress"
               /\ escrows'[id].status = "approved" => escrows[id].status = "delivered"
     /\ \A r \in Slots :
          (req[r].pc = "approve_commit" /\ req'[r].pc = "done") =>
            LET id == req[r].escrowId
                e == escrows[id]
                c == e.clientId
                f == e.freelancerId IN
            /\ req'[r].res = "200"
            /\ e.status = "delivered"
            /\ escrows'[id].status = "approved"
            /\ wallets'[c].reservedBalance = wallets[c].reservedBalance - e.amount
            /\ Len(wallets[c].escrowReserves) = 1 => wallets'[c].reservedBalance = 0
            /\ wallets'[c].balance = wallets[c].balance
            /\ wallets'[f].balance = Balance(f) + e.amount
            /\ wallets'[c].balance + wallets'[f].balance + HeldUpTo(MaxEscrows)'
                 + FeesUpTo(MaxEscrows)
                 = SumType(transactions, "deposit") + SumType(transactions, "withdrawal")
    ]_vars

\* create(100) on a balance of 1000, start, deliver and approve have run
C10_Witness ==
  /\ escrows[1] # NoDoc
  /\ escrows[1].status = "approved"
  /\ escrows[1].amount = 100
  /\ wallets["c"] # NoDoc
  /\ wallets["c"].balance = 895
  /\ wallets["c"].reservedBalance = 0
  /\ wallets["c"].escrowReserves = <<>>
  /\ wallets["f"] # NoDoc
  /\ wallets["f"].balance = 100

Transitions == {"start", "deliver", "approve", "reject"}

\* C11: every transition checks the caller against the expected party
\* (freelancer for start and deliver, client for approve and reject) before the
\* status: on every stored escrow a call by another user is answered 403, also
\* when the status is wrong too, 400 is answered only to the expected party, and
\* a request answered 403 or 400 leaves the escrows, the wallets and the
\* transaction log as they were.
C11_AuthorizationBeforeState ==
  /\ [](\A id \in Stored, op \in Transitions, u \in Users :
          LET e == escrows[id]
              q == [Idle EXCEPT !.op = op, !.userId = u, !.escrowId = id]
              expected == IF op \in {"start", "deliver"} THEN e.freelancerId ELSE e.clientId
              res == TransitionChecks(q, e).res IN
          /\ expected # u => res = "403"
          /\ res = "400_state" => (expected = u /\ e.status # RequiredStatus(op)))
  /\ [][\A r \in Slots :
          (req[r].pc = "idle" /\ req'[r].pc = "done" /\ req'[r].res \in {"403", "400_state"})
            => UNCHANGED <<wallets, escrows, transactions>>
       ]_vars

\* a call by the wrong party was answered 403 on an escrow whose status
\* (approved) no transition accepts
C11_Witness ==
  /\ Stored = {1}
  /\ escrows[1].status = "approved"
  /\ \E r \in Slots : req[r].pc = "done" /\ req[r].res = "403"

\* C12: on every stored wallet a withdraw of more than the available balance
\* (balance - reservedBalance) is answered with the insufficient-funds error that
\* carries the available and the requested amount, whatever payment method it
\* names, and the checks let a withdraw pass only within the available balance;
\* a request answered so appends no Transaction and changes no balance or
\* reservedBalance.  A successful withdraw appends one
\* Transaction(type = withdrawal, amount = -amount) and its save lowers the
\* balance by exactly amount, reservedBalance unchanged.
C12_WithdrawContract ==
  /\ [](\A u \in WalletUsers \cap Existing, a \in WithdrawAmounts, pm \in PmIds :
          LET w == wallets[u]
              available == w.balance - w.reservedBalance
              q == [Idle EXCEPT !.op = "withdraw", !.userId = u, !.amount = a, !.pmId = pm]
              out == WithdrawChecks(q, w) IN
          /\ a > available =>
               /\ out.pc = "done"
               /\ out.res = "400_funds"
               /\ out.availableBalance = available
               /\ out.requested = a
          /\ out.pc = "withdraw_tx" => a <= available)
  /\ [][\A r \in Slots :
          LET q == req[r]
              u == q.userId IN
          /\ (q.pc # "done" /\ req'[r].pc = "done" /\ req'[r].res = "400_funds") =>
               /\ transactions' = transactions
               /\ escrows' = escrows
               /\ \A x \in Existing :
                    /\ wallets'[x].balance = wallets[x].balance
                    /\ wallets'[x].reservedBalance = wallets[x].reservedBalance
          /\ (q.pc = "withdraw_tx" /\ req'[r].pc = "withdraw_save") =>
               /\ transactions' = Append(transactions,
                    [userId |-> u, amount |-> -q.amount, type |-> "withdrawal",
                     reference |-> 0])
               /\ wallets' = wallets
          /\ (q.pc = "withdraw_save" /\ req'[r].pc = "done" /\ req'[r].res = "201") =>
               /\ transactions' = transactions
               /\ wallets'[u].balance = wallets[u].balance - q.amount
               /\ wallets'[u].reservedBalance = wallets[u].reservedBalance
       ]_vars

\* a withdraw was refused for insufficient funds on a wallet that holds money,
\* all of it reserved or spent on an escrow
C12_WitnessRefused ==
  /\ wallets["c"] # NoDoc
  /\ wallets["c"].balance = 13
  /\ wallets["c"].reservedBalance = 940
  /\ \E r \in Slots :
       /\ req[r].pc = "done"
       /\ req[r].res = "400_funds"
       /\ req[r].requested = 100
       /\ req[r].availableBalance = -927

\* C13: on every stored client wallet a create whose total = amount + platformFee
\* exceeds the available balance is answered with the insufficient-funds error
\* whose requested field is total, also when amount alone exceeds the available
\* balance; a create answered so stores no escrow, appends no Transaction and
\* changes no wallet.
C13_CreateInsufficientFunds ==
  /\ [](\A c \in Clients \cap Existing, f \in Freelancers, a \in EscrowAmounts :
          LET w == wallets[c]
              available == w.balance - w.reservedBalance
              total == a + (a * 5) \div 100
              q == [Idle EXCEPT !.op = "create", !.userId = c, !.peer = f, !.amount = a]
              out == CreateChecks(q, w) IN
          /\ total > available =>
               /\ out.pc = "done"
               /\ out.res \in {"400_funds_amount", "400_funds_fee"}
               /\ out.availableBalance = available
               /\ out.requested = total
          /\ out.pc = "create_tx" => total <= available)
  /\ [][\A r \in Slots :
          (req[r].pc = "idle" /\ req'[r].pc = "done"
             /\ req'[r].res \in {"400_funds_amount", "400_funds_fee"})
            => UNCHANGED <<wallets, escrows, transactions>>
       ]_vars

\* the client's wallet holds what create's last save writes for escrow id: the
\* reserve entry and the back-reference to the funding Transaction
WalletFunded(id) ==
  LET e == escrows[id]
      w == wallets[e.clientId] IN
  /\ w # NoDoc
  /\ \E i \in ReservesFor(w, id) : w.escrowReserves[i].amount = e.amount
  /\ \E i \in 1 .. Len(w.transactionIds) : w.transactionIds[i] = e.transactionId

\* C14: create is all-or-nothing, also when a store write fails part-way: once no
\* request is in flight, a funding Transaction exists for an escrow id exactly
\* when the escrow is stored, and a stored escrow that was never paid out or
\* transitioned further (status funded) has its reserve entry and its debit
\* (the save that debits also records the funding Transaction) in the client's
\* wallet.
C14_CreateAllOrNothing ==
  Quiescent =>
    \A id \in EscrowIds :
      /\ (EscrowTxs(id) # {}) <=> (escrows[id] # NoDoc)
      /\ (escrows[id] # NoDoc /\ escrows[id].status = "funded") => WalletFunded(id)

WalletWritePcs == {"deposit_tx", "deposit_save", "withdraw_tx", "withdraw_save"}

\* C15: deposit and withdraw are all-or-nothing: when a deposit or a withdraw
\* ends with a store error (500), the request has left no Transaction in the
\* log and the wallet's balance is the one the request read.
C15_WalletOpsAllOrNothing ==
  [][\A r \in Slots :
       (req[r].pc \in WalletWritePcs /\ req'[r].pc = "done" /\ req'[r].res # "201") =>
         /\ req[r].txId = 0
         /\ wallets'[req[r].userId].balance = req[r].wallet.balance
    ]_vars

RECURSIVE ApprovedFor(_, _)
ApprovedFor(n, u) ==
  IF n = 0 THEN 0
  ELSE (IF escrows[n] # NoDoc /\ escrows[n].freelancerId = u /\ escrows[n].status = "approved"
        THEN escrows[n].amount ELSE 0) + ApprovedFor(n - 1, u)

\* C16: approve is all-or-nothing across the escrow, both wallets and the log,
\* also when a store operation fails or the transaction aborts inside approve:
\* in every state an escrow is approved exactly when one payment Transaction
\* references it, an approved escrow has no reserve entry in the client's
\* wallet, and the recipient's balance is the sum of the approved escrows;
\* and a step that makes one of the four changes (status approved, payment
\* appended, reserve entry removed, recipient credited) makes all four.
C16_ApproveAllOrNothing ==
  /\ [](/\ \A id \in Stored :
             /\ (escrows[id].status = "approved") <=> (Cardinality(Payments(id)) = 1)
             /\ Cardinality(Payments(id)) <= 1
             /\ escrows[id].status = "approved" =>
                  ReservesFor(wallets[escrows[id].clientId], id) = {}
        /\ \A u \in Freelancers : Balance(u) = ApprovedFor(MaxEscrows, u))
  /\ [][\A id \in Stored :
          LET e == escrows[id]
              c == e.clientId
              f == e.freelancerId
              approvedNow == e.status # "approved" /\ escrows'[id].status = "approved"
              paidNow == Payments(id)' # Payments(id)
              releasedNow == /\ wallets[c] # NoDoc
                             /\ ReservesFor(wallets[c], id) # {}
                             /\ ReservesFor(wallets'[c], id) = {} IN
          /\ (approvedNow \/ paidNow \/ releasedNow) =>
               /\ escrows'[id].status = "approved"
               /\ Cardinality(Payments(id)') = Cardinality(Payments(id)) + 1
               /\ ReservesFor(wallets'[c], id) = {}
               /\ wallets'[c].reservedBalance = SumAmounts(wallets'[c].escrowReserves)
               /\ Balance(f)' = Balance(f) + e.amount
          /\ Balance(f)' # Balance(f) =>
               \E x \in Stored : escrows[x].status # "approved" /\ escrows'[x].status = "approved"
       ]_vars

\* an approve of the delivered escrow 1 failed at the commit of its
\* transaction, after its four writes, and was answered 500: the escrow is
\* still delivered, its reserve is in place, nothing was paid
C16_WitnessAborting ==
  /\ escrows[1] # NoDoc
  /\ escrows[1].status = "delivered"
  /\ ReservesFor(wallets["c"], 1) # {}
  /\ Payments(1) = {}
  /\ wallets["f"] = NoDoc
  /\ \E r \in Slots :
       /\ req[r].pc = "approve_abort"
       /\ req[r].abortedAt = "approve_commit"
       /\ req[r].escrowId = 1

Defaults(w) == {i \in 1 .. Len(w.paymentMethods) : w.paymentMethods[i].isDefault}

\* C17: under any interleaving of addPaymentMethod, removePaymentMethod and
\* setDefaultPaymentMethod, every wallet has at most one default payment method
\* and exactly one when it has a method at all; a successful
\* setDefaultPaymentMethod(methodId) leaves methodId as the only default.
C17_OneDefault ==
  /\ [](\A u \in Existing :
          /\ Cardinality(Defaults(wallets[u])) <= 1
          /\ Len(wallets[u].paymentMethods) > 0 => Cardinality(Defaults(wallets[u])) = 1)
  /\ [][\A r \in Slots :
          (req[r].pc = "setdefault_save" /\ req'[r].pc = "done" /\ req'[r].res = "200") =>
            LET w == wallets'[req[r].userId] IN
            \A i \in 1 .. Len(w.paymentMethods) :
              w.paymentMethods[i].isDefault <=> (w.paymentMethods[i].id = req[r].pmId)
       ]_vars

\* C18: on every stored wallet removePaymentMethod answers not-found for an
\* unknown id and answers the wallet's only method with the validation error,
\* whether or not that method is marked default, so that the method set stays
\* as it is.  (The part of the claim about what is refused; the removal of a
\* default method is checked with the one-default invariant of C17.)
C18_OnlyMethodRefused ==
  \A u \in WalletUsers \cap Existing, pm \in PmIdsAlone :
    LET w == wallets[u]
        q == [Idle EXCEPT !.op = "removePaymentMethod", !.userId = u, !.pmId = pm]
        out == RemoveChecks(q, w) IN
    /\ ~HasMethod(w, pm) => (out.pc = "done" /\ out.res = "404_method")
    /\ (HasMethod(w, pm) /\ Len(w.paymentMethods) = 1) =>
         (out.pc = "done" /\ out.res = "400_only_method")

\* C19: start, deliver and reject change only the escrow record: the save of the
\* transition sets the status (in_progress, delivered, disputed) and, for
\* reject, stores the reason, leaves every other escrow, every wallet and the
\* transaction log as they were; so a disputed escrow still has its reserve
\* entry, of the escrow's amount, in the client's wallet.
C19_TransitionFrame ==
  /\ [][\A r \in Slots :
          (req[r].pc = "transition_save" /\ req'[r].pc = "done" /\ req'[r].res = "200") =>
            LET q == req[r]
                id == q.escrowId IN
            /\ q.op \in {"start", "deliver", "reject"}
            /\ wallets' = wallets
            /\ transactions' = transactions
            /\ \A x \in EscrowIds \ {id} : escrows'[x] = escrows[x]
            /\ escrows'[id].status =
                 (CASE q.op = "start" -> "in_progress"
                    [] q.op = "deliver" -> "delivered"
                    [] OTHER -> "disputed")
            /\ escrows'[id].amount = escrows[id].amount
            /\ q.op = "reject" => escrows'[id].disputeReason = q.reason
            /\ q.op # "reject" => escrows'[id].disputeReason = escrows[id].disputeReason
       ]_vars
  /\ [](\A id \in Stored :
          escrows[id].status = "disputed" =>
            /\ escrows[id].disputeReason \in DisputeReasons
            /\ \E i \in ReservesFor(wallets[escrows[id].clientId], id) :
                 wallets[escrows[id].clientId].escrowReserves[i].amount = escrows[id].amount
            /\ wallets[escrows[id].clientId].reservedBalance >= escrows[id].amount)

\* escrow 1 of amount 100 was rejected: it is disputed with its reason and the
\* client's wallet still reserves the 100
C19_Witness ==
  /\ escrows[1] # NoDoc
  /\ escrows[1].status = "disputed"
  /\ escrows[1].disputeReason = "late"
  /\ wallets["c"].balance = 895
  /\ wallets["c"].reservedBalance = 100
  /\ wallets["c"].escrowReserves = <<[escrowId |-> 1, amount |-> 100]>>
  /\ wallets["f"] = NoDoc
  /\ \E r \in Slots : req[r].pc = "done" /\ req[r].res = "200"

\* the parts of the fallback-store invariant
C20_FallbackReservedIsSum ==
  \A u \in MockUsers :
    wallets[u] # NoDoc =>
      /\ wallets[u].reservedBalance =
           SumAmounts(IF "escrowReserves" \in DOMAIN wallets[u]
                      THEN wallets[u].escrowReserves ELSE <<>>)
      /\ wallets[u].balance >= wallets[u].reservedBalance
      /\ wallets[u].reservedBalance >= 0

C20_FallbackOpenEscrowReserved ==
  \A id \in EscrowIds :
    (escrows[id] # NoDoc /\ escrows[id].status \in OpenStatuses) =>
      /\ wallets[escrows[id].clientId] # NoDoc
      /\ \E i \in ReservesFor(wallets[escrows[id].clientId], id) :
           wallets[escrows[id].clientId].escrowReserves[i].amount = escrows[id].amount

C20_FallbackPayoutVisible ==
  \A id \in EscrowIds :
    (escrows[id] # NoDoc /\ escrows[id].status = "approved") =>
      /\ wallets[escrows[id].freelancerId] # NoDoc
      /\ wallets[escrows[id].freelancerId].balance >= escrows[id].amount

\* C20: with the in-memory fallback store in use, every data-model invariant
\* holds in every reachable state: in every stored wallet reservedBalance is the
\* sum of the escrowReserves amounts and balance >= reservedBalance >= 0, an
\* open escrow has its reserve entry in the client's wallet, and the payout of
\* an approved escrow is in the freelancer's wallet.
C20_FallbackInvariants ==
  /\ C20_FallbackReservedIsSum
  /\ C20_FallbackOpenEscrowReserved
  /\ C20_FallbackPayoutVisible

\* C21: with requests served one at a time, on every stored wallet the checks of
\* deposit refuse an amount <= 0 and a paymentMethodId that is not a method of
\* the wallet, and let every other deposit pass; a deposit refused so appends no
\* Transaction and changes no balance.  A successful deposit appends exactly one
\* Transaction(type = deposit, amount = +amount), its save raises the balance by
\* exactly amount and leaves reservedBalance and escrowReserves as they were,
\* and the response carries the new balance.
C21_DepositContract ==
  /\ [](\A u \in WalletUsers \cap Existing, a \in DepositInputs, pm \in {0} \cup PmIds :
          LET w == wallets[u]
              q == [Idle EXCEPT !.op = "deposit", !.userId = u, !.amount = a, !.pmId = pm]
              out == DepositChecks(q, w)
              isMethod == \E i \in 1 .. Len(w.paymentMethods) : w.paymentMethods[i].id = pm IN
          IF a <= 0 \/ ~isMethod
          THEN out.pc = "done" /\ out.res \in DepositFailures
          ELSE out.pc = "deposit_tx")
  /\ [][\A r \in Slots :
          LET q == req[r]
              u == q.userId IN
          /\ (q.pc # "done" /\ req'[r].pc = "done" /\ req'[r].res \in DepositFailures) =>
               /\ transactions' = transactions
               /\ \A x \in Users : Balance(x)' = Balance(x)
          /\ (q.pc = "deposit_tx" /\ req'[r].pc = "deposit_save") =>
               /\ transactions' = Append(transactions,
                    [userId |-> u, amount |-> q.amount, type |-> "deposit", reference |-> 0])
               /\ wallets' = wallets
          /\ (q.pc = "deposit_save" /\ req'[r].pc = "done") =>
               /\ req'[r].res = "201"
               /\ transactions' = transactions
               /\ wallets'[u].balance = wallets[u].balance + q.amount
               /\ wallets'[u].reservedBalance = wallets[u].reservedBalance
               /\ wallets'[u].escrowReserves = wallets[u].escrowReserves
               /\ req'[r].newBalance = wallets'[u].balance
       ]_vars

\* a deposit of 1000 into a wallet that holds a reserve has answered 201 with
\* the new balance
C21_Witness ==
  /\ wallets["c"] # NoDoc
  /\ wallets["c"].balance = 1895
  /\ wallets["c"].reservedBalance = 100
  /\ Len(wallets["c"].escrowReserves) = 1
  /\ \E r \in Slots : req[r].pc = "done" /\ req[r].res = "201" /\ req[r].newBalance = 1895

\* C22: no escrow is observable in status created: in every state, also while
\* the creating request and other requests are in flight, every stored escrow
\* has a status other than created, and a stored escrow with status funded has
\* fundedAt set.
C22_CreatedNeverObservable ==
  \A id \in EscrowIds :
    escrows[id] # NoDoc =>
      /\ escrows[id].status # "created"
      /\ escrows[id].status = "funded" => escrows[id].fundedAt

\* escrow 1 is stored and funded while the create that stored it has not yet
\* saved the wallet, and a start by the freelancer has already read it
C22_Witness ==
  /\ escrows[1] # NoDoc
  /\ escrows[1].status = "funded"
  /\ escrows[1].fundedAt
  /\ \E r, s \in Slots :
       /\ req[r].op = "create" /\ req[r].pc = "create_wallet" /\ req[r].escrowId = 1
       /\ req[s].op = "start" /\ req[s].pc = "transition_save" /\ req[s].escrowId = 1

\* the approval data of an escrow: what approve wrote and what it paid
Approval(id) == <<escrows[id], Payments(id), EscrowTxs(id)>>

\* C23: approved is terminal: on an approved escrow every start, deliver,
\* approve and reject call, by any caller, is refused by its checks and changes
\* nothing, no such call passes its checks, and with requests served one at a
\* time no step changes an approved escrow's document (status, amount, approval
\* data) or the Transactions that reference it, and no step of a start, deliver,
\* approve or reject call made on it changes a wallet or the transaction log.
C23_ApprovedTerminal ==
  /\ [](\A id \in Stored, op \in Transitions, u \in Users :
          escrows[id].status = "approved" =>
            LET q == [Idle EXCEPT !.op = op, !.userId = u, !.escrowId = id]
                out == TransitionChecks(q, escrows[id]) IN
            out.pc = "done" /\ out.res \in {"403", "400_state"})
  /\ [][\A id \in Stored :
          escrows[id].status = "approved" =>
            /\ Approval(id)' = Approval(id)
            /\ \A r \in Slots :
                 (req[r].pc = "idle" /\ req'[r].pc # "idle" /\ req'[r].escrowId = id
                    /\ req'[r].op \in Transitions) => FALSE
            /\ \A r \in Slots :
                 (req[r].escrowId = id /\ req[r].op \in Transitions /\ req'[r] # req[r]) =>
                   UNCHANGED <<wallets, transactions>>
       ]_vars

GetOrCreatePcs == {"getUserWallet_save", "getWallet_save"}

\* C24: getOrCreate(userId) never fails, also when two first accesses for the
\* same userId race: the step that inserts the wallet of a user who had none
\* stores a wallet with balance 0, reservedBalance 0 and no payment methods or
\* reserves, and is never answered with an error; the request goes on with
\* the single stored wallet.
C24_GetOrCreateNeverFails ==
  [][\A r \in Slots :
       (req[r].pc \in GetOrCreatePcs /\ req'[r] # req[r]) =>
         LET u == req[r].userId IN
         /\ ~(req'[r].pc = "done" /\ req'[r].res \in {"500_create", "500_wallet"})
         /\ wallets[u] = NoDoc =>
              /\ wallets'[u].balance = 0
              /\ wallets'[u].reservedBalance = 0
              /\ wallets'[u].paymentMethods = <<>>
              /\ wallets'[u].escrowReserves = <<>>
    ]_vars

\* C25: the transaction log is append-only: every step either leaves the log as
\* it is or adds entries at its end, and the userId, amount, type and reference
\* of an entry already in the log never change.
C25_LogAppendOnly ==
  [][/\ Len(transactions') >= Len(transactions)
     /\ \A i \in 1 .. Len(transactions) :
          /\ transactions'[i].userId = transactions[i].userId
          /\ transactions'[i].amount = transactions[i].amount
          /\ transactions'[i].type = transactions[i].type
          /\ transactions'[i].reference = transactions[i].reference
    ]_vars

\* the log holds two deposits, the funding of an escrow and its payout
C25_Witness ==
  /\ Len(transactions) = 4
  /\ \E i, j, k, l \in 1 .. 4 :
       /\ i < j
       /\ transactions[i].type = "deposit" /\ transactions[j].type = "deposit"
       /\ transactions[k].type = "escrow" /\ transactions[l].type = "payment"
       /\ transactions[k].reference = transactions[l].reference


\* the awaited store operations that a request at pc may still have before it
\* responds
StepsLeft(pc) ==
  CASE pc = "approve_session" -> 9
    [] pc = "approve_read" -> 8
    [] pc = "approve_read_f" -> 7
    [] pc \in {"getUserWallet_save", "getWallet_save", "approve_tx"} -> 6
    [] pc \in {"create_tx", "approve_escrow"} -> 5
    [] pc \in {"create_escrow", "approve_client"} -> 4
    [] pc \in {"create_wallet", "approve_freelancer"} -> 3
    [] pc \in {"deposit_tx", "withdraw_tx", "approve_commit"} -> 2
    [] pc \in {"deposit_save", "withdraw_save", "addpm_save", "removepm_save",
               "setdefault_save", "transition_save", "approve_abort"} -> 1
    [] OTHER -> 0

InFlight(r) == req[r].pc \notin {"idle", "done"}

\* the transaction of approve is open: begun by its first read, not yet
\* committed or aborted
OpenTxn(q) == InTxn(q) \/ q.pc = "approve_abort"

\* C26: every invoked operation completes with exactly one outcome and none
\* waits forever: a request in flight can take its next step unless it waits
\* for the open transaction of another request, a request with an open transaction never waits, every step
\* of a request brings it strictly closer to its response (so a request that
\* lost a commit conflict or hit a store failure ends in an error and is not
\* run again), and a response, once given, stays until the request is over.
C26_OperationsComplete ==
  /\ [](\A r \in Slots :
          /\ InFlight(r) =>
               \/ ENABLED Progress(r)
               \/ \E s \in Slots \ {r} : OpenTxn(req[s]) /\ ENABLED Progress(s)
          /\ OpenTxn(req[r]) => ENABLED Progress(r))
  /\ [][\A r \in Slots :
          /\ (InFlight(r) /\ req'[r].pc # req[r].pc) =>
               /\ req'[r].pc # "idle"
               /\ StepsLeft(req'[r].pc) < StepsLeft(req[r].pc)
          /\ (InFlight(r) /\ req'[r].pc = req[r].pc) => req'[r].op = req[r].op
          /\ req[r].pc = "done" => (req'[r] = req[r] \/ req'[r] = Idle)
          /\ (req[r].pc \in TxnPcs /\ req'[r].pc = "done") => req'[r].res = "200"
          /\ (req[r].pc = "approve_abort" /\ req'[r].pc # "approve_abort") =>
               /\ req'[r].pc = "done"
               /\ req'[r].res = "500_approve"
               /\ UNCHANGED <<wallets, escrows, transactions>>
       ]_vars

\* an approve of escrow 1 has ended in an error (it lost the commit conflict
\* against the approve that paid the escrow out, or its store operation
\* failed) and has its one response
C26_Witness ==
  /\ escrows[1] # NoDoc
  /\ escrows[1].status = "approved"
  /\ Cardinality(Payments(1)) = 1
  /\ \E r, s \in Slots :
       /\ req[r].pc = "done" /\ req[r].res = "500_approve"
       /\ req[s].pc = "done" /\ req[s].res = "200"

\* C27: approve credits the recipient only when it also removes a reserve entry
\* for the escrow from the client's wallet: at the step that commits an approve
\* (recipient credited by escrow.amount), the client's wallet, as approve read it
\* and as it is stored, holds a reserve entry for the escrow, and holds none
\* after the step.
C27_CreditOnlyWithReserve ==
  [][\A r \in Slots :
       (req[r].pc = "approve_commit" /\ req'[r].pc = "done" /\ req'[r].res = "200") =>
         LET id == req[r].escrowId
             c == escrows[id].clientId
             f == escrows[id].freelancerId IN
         /\ wallets'[f].balance = Balance(f) + escrows[id].amount
         /\ ReserveIndex(req[r].wallet, id) # 0
         /\ ReservesFor(wallets[c], id) # {}
         /\ ReservesFor(wallets'[c], id) = {}
    ]_vars

\* C28: through the routes the statuses refunded, released and cancelled are
\* never reached, and a disputed escrow is stuck: no step changes the status of
\* a disputed escrow or removes its reserve entry from the client's wallet, so
\* the reserved amount is neither returned to the client (the client's balance
\* does not rise by a step on that escrow) nor paid to the recipient (no payment
\* Transaction for it is added).
C28_DisputedStuck ==
  /\ [](\A id \in Stored : escrows[id].status \notin {"refunded", "released", "cancelled"})
  /\ [][\A id \in Stored :
          escrows[id].status = "disputed" =>
            LET c == escrows[id].clientId IN
            /\ escrows'[id].status = "disputed"
            /\ Payments(id)' = Payments(id)
            /\ \A i \in ReservesFor(wallets[c], id) :
                 \E j \in ReservesFor(wallets'[c], id) :
                   wallets'[c].escrowReserves[j] = wallets[c].escrowReserves[i]
       ]_vars

\* the ids of the Transactions recorded for user u
TxIdsOf(u) == {i \in 1 .. Len(transactions) : transactions[i].userId = u}

BackReferenced(w) == {w.transactionIds[i] : i \in 1 .. Len(w.transactionIds)}

\* C29: once no request is in flight, every Transaction recorded for a user is
\* back-referenced from that user's wallet: the wallet exists and its
\* transactionIds contains the id of each Transaction whose userId is the
\* wallet's userId, the payment Transaction of an approve included.
C29_TransactionsBackReferenced ==
  Quiescent =>
    \A u \in Users :
      TxIdsOf(u) # {} =>
        /\ wallets[u] # NoDoc
        /\ TxIdsOf(u) \subseteq BackReferenced(wallets[u])
====
